---- MODULE Spec2Model ----
(***************************************************************************)
(* BrewGI (src/BrewGI.py): a PyQt5 front end that shells out to Homebrew.  *)
(* The model covers the external tool as the code sees it (exit codes and  *)
(* line lists), the main window list, the import dialog, the search        *)
(* dialogs, the BrewInstaller worker threads and the delivery of their     *)
(* finished signal to the GUI thread.                                      *)
(*                                                                         *)
(* Package identifiers are strings in the code.  A name is modelled as the *)
(* number 2*p + t: p is the rank of the token in lexical order and t = 1   *)
(* when the string carries the text " (already installed)" after the       *)
(* token (such strings can only come from an imported JSON file).  Numeric *)
(* order of names is the lexical order of the strings.  The external tool  *)
(* knows the tokens only; each token is a cask or a formula.               *)
(***************************************************************************)
EXTENDS Integers, Sequences, FiniteSets

VARIABLES
    alive,        \* the process is running (FALSE after an abort / sys.exit)
    brew,         \* external tool: the tokens installed on the machine
    listItems,    \* self.list_widget: the item texts, in order
    listChecked,  \* self.list_widget: texts of the checked items
    importDlg,    \* the modal "Confirm Apps to Install" dialog
    searchDlg,    \* the "Search Results" windows, by slot
    workers,      \* the BrewInstaller thread objects, by slot
    installer,    \* self.installer: slot of the last thread created, 0 if
                  \* there is none or it has delivered its signal
    exportFile,   \* the file written by export_installed_json
    op,           \* the handler that produced the current state
    calls,        \* the external invocations that handler made, in order
    notice        \* the message box that handler showed

vars == <<alive, brew, listItems, listChecked, importDlg, searchDlg, workers,
          installer, exportFile, op, calls, notice>>

\* ---------------------------------------------------------------- bounds
NumPkgs == 1
MaxResults == 2
MaxImported == 2
MaxWorkers == 2
MaxSearchDialogs == 1

\* ----------------------------------------------------------------- names
Tokens == {2 * p : p \in 1..NumPkgs}
Names == Tokens \cup {n + 1 : n \in Tokens}
CaskTokens == {n \in Tokens : (n \div 2) % 2 = 1}
FormulaTokens == Tokens \ CaskTokens

Range(s) == {s[i] : i \in 1..Len(s)}

SetMin(S) == CHOOSE m \in S : \A x \in S : m <= x

RECURSIVE sorted(_)
sorted(S) == IF S = {} THEN << >>
             ELSE LET m == SetMin(S) IN <<m>> \o sorted(S \ {m})

SeqsUpTo(S, n) == UNION {[1..k -> S] : k \in 0..n}

\* item.text() of an import-dialog row: the app name, followed by the
\* marker " (already installed)" when the row is locked.
ItemLabel(app, already) == [name |-> app, marker |-> already]

\* text.replace(" (already installed)", ""): every occurrence goes, the
\* marker as well as one that is part of the name itself.
StripMarker(text) == 2 * (text.name \div 2)

\* ---------------------------------------------------------- external tool
Call(cmd, arg, out) == [cmd |-> cmd, arg |-> arg, out |-> out]

\* brew list / brew search through BREW_PATH: exit 0 or a non-zero exit
\* (the constructor has launched BREW_PATH before any handler runs)
QueryOutcomes == {"ok", "exit"}

\* brew install <app>: exit 0, non-zero exit, or the binary 'brew' is not
\* found on PATH.  A name that is no token of the tool never installs.
InstallOutcomes(app) ==
    IF app \in Tokens THEN {"ok", "exit", "nolaunch"} ELSE {"exit", "nolaunch"}

UninstallOutcomes == {"ok", "exit", "nolaunch"}

\* subprocess.check_output([... 'list' ...]).splitlines() with the
\* CalledProcessError branch: a category whose query fails is empty.
brew_list(b, co, fo) ==
    [cask    |-> IF co = "ok" THEN sorted(b \cap CaskTokens) ELSE << >>,
     formula |-> IF fo = "ok" THEN sorted(b \cap FormulaTokens) ELSE << >>]

get_brew_apps(co, fo) == brew_list(brew, co, fo)

ListCalls(co, fo) == <<Call("list_cask", 0, co), Call("list", 0, fo)>>

NoNotice == [icon |-> "none", title |-> "", body |-> "", a |-> << >>, b |-> << >>]
Notice(icon, title, body, a, b) ==
    [icon |-> icon, title |-> title, body |-> body, a |-> a, b |-> b]

NoDlg == [open |-> FALSE]
NoFile == [exists |-> FALSE]
Free == [status |-> "free"]

\* all_apps of refresh_app_list when the machine holds b:
\* sorted(set(cask_apps + formula_apps))
all_apps(b, co, fo) ==
    LET q == brew_list(b, co, fo)
    IN  sorted(Range(q.cask \o q.formula))

\* a list kept as it is instead of rebuilt
refresh_app_list_keep(b, co, fo) == UNCHANGED <<listItems, listChecked>>

\* refresh_app_list: clear the list, query, one unchecked row per app
refresh_app_list(b, co, fo) ==
    /\ listItems' = all_apps(b, co, fo)
    /\ listChecked' = {}

Init ==
    /\ alive = TRUE
    /\ brew \in SUBSET Tokens
    /\ \E co \in QueryOutcomes, fo \in QueryOutcomes :
          /\ listItems = all_apps(brew, co, fo)
          /\ calls = ListCalls(co, fo)
    /\ listChecked = {}
    /\ importDlg = NoDlg
    /\ searchDlg = [d \in 1..MaxSearchDialogs |-> NoDlg]
    /\ workers = [w \in 1..MaxWorkers |-> Free]
    /\ installer = 0
    /\ exportFile = NoFile
    /\ op = "__init__"
    /\ notice = NoNotice

\* the main window accepts input: the process runs and no modal dialog is up
MainEnabled == alive /\ ~importDlg.open

\* the process ends (qFatal, or sys.exit in except_hook): its objects are
\* gone, the machine and the files on disk remain
Dead(handler) ==
    /\ alive' = FALSE
    /\ listItems' = << >>
    /\ listChecked' = {}
    /\ importDlg' = NoDlg
    /\ searchDlg' = [d \in 1..MaxSearchDialogs |-> NoDlg]
    /\ workers' = [w \in 1..MaxWorkers |-> Free]
    /\ installer' = 0
    /\ op' = handler
    /\ calls' = << >>
    /\ notice' = NoNotice
    /\ UNCHANGED <<brew, exportFile>>

\* the user ticks or unticks a row of the main list
ToggleMain(n) ==
    /\ MainEnabled
    /\ n \in Range(listItems)
    /\ listChecked' = IF n \in listChecked THEN listChecked \ {n}
                      ELSE listChecked \cup {n}
    /\ op' = "toggle_main"
    /\ calls' = << >>
    /\ notice' = NoNotice
    /\ UNCHANGED <<alive, brew, listItems, importDlg, searchDlg,
                   workers, installer, exportFile>>

\* ------------------------------------------------------------ JSON export
\* export_installed_json: the lists as queried, written if a path is chosen.
\* stale records that the external installed state changed after the export.
export_installed_json(co, fo, pathChosen) ==
    /\ MainEnabled
    /\ LET q == get_brew_apps(co, fo)
       IN  IF pathChosen
           THEN /\ exportFile' = [exists |-> TRUE, keys |-> {"cask", "formula"},
                                  cask |-> q.cask, formula |-> q.formula,
                                  stale |-> FALSE]
                /\ notice' = Notice("information", "Export", "exported", << >>, << >>)
           ELSE /\ exportFile' = exportFile
                /\ notice' = NoNotice
    /\ op' = "export_installed_json"
    /\ calls' = ListCalls(co, fo)
    /\ UNCHANGED <<alive, brew, listItems, listChecked, importDlg,
                   searchDlg, workers, installer>>

\* ------------------------------------------------------------ JSON import
\* the JSON documents a user can pick: an object with any of the two keys,
\* each an array of names, MaxImported names in all
SubSeqOf(s, m, n) == [i \in 1..(n - m + 1) |-> s[m + i - 1]]

JsonFiles ==
    UNION {UNION {{[keys |-> {"cask", "formula"} \ missing,
                    cask |-> SubSeqOf(s, 1, k),
                    formula |-> SubSeqOf(s, k + 1, Len(s))] :
                     missing \in SUBSET ((IF k = 0 THEN {"cask"} ELSE {})
                                         \cup (IF k = Len(s) THEN {"formula"} ELSE {}))} :
                  k \in 0..Len(s)} :
           s \in SeqsUpTo(Names, MaxImported)}

\* data.get(key, [])
data_get(data, key) == IF key \in data.keys THEN data[key] ELSE << >>

\* the rows built by the loop over sorted(all_imported)
RECURSIVE import_rows(_, _)
import_rows(apps, already_installed) ==
    IF apps = << >> THEN << >>
    ELSE LET app == Head(apps)
             already == app \in already_installed
         IN  <<[app |-> app,
                text |-> ItemLabel(app, already),
                enabled |-> ~already,
                checked |-> ~already]>>
             \o import_rows(Tail(apps), already_installed)

RECURSIVE reversed(_)
reversed(seq) == IF seq = << >> THEN << >>
                 ELSE Append(reversed(Tail(seq)), Head(seq))

\* the rows in another iteration order of the set than sorted()
import_items_unsorted(all_imported, already_installed) ==
    import_rows(reversed(sorted(all_imported)), already_installed)

import_items(all_imported, already_installed) ==
    import_rows(sorted(all_imported), already_installed)

\* the dialog with already_installed taken from the formulae alone
import_open_formulae_only(data, fromExport, co, fo) ==
    LET q == get_brew_apps(co, fo)
        all_imported == Range(data_get(data, "cask")) \cup Range(data_get(data, "formula"))
    IN  [open |-> TRUE,
         rows |-> import_items(all_imported, Range(q.formula)),
         buttons |-> TRUE,
         title |-> "Confirm Apps to Install",
         desired |-> all_imported,
         roundTrip |-> fromExport /\ ~exportFile.stale,
         listOK |-> co = "ok" /\ fo = "ok"]

\* import_and_install_json up to dlg.exec_(): the dialog is on screen
import_open(data, fromExport, co, fo) ==
    LET import_casks == Range(data_get(data, "cask"))
        import_formulae == Range(data_get(data, "formula"))
        q == get_brew_apps(co, fo)
        all_imported == import_casks \cup import_formulae
        already_installed == Range(q.cask) \cup Range(q.formula)
    IN  [open |-> TRUE,
         rows |-> import_items(all_imported, already_installed),
         buttons |-> TRUE,
         title |-> "Confirm Apps to Install",
         desired |-> all_imported,
         roundTrip |-> fromExport /\ ~exportFile.stale,
         listOK |-> co = "ok" /\ fo = "ok"]

\* no path chosen: return
import_cancelled ==
    /\ MainEnabled
    /\ op' = "import_and_install_json"
    /\ calls' = << >>
    /\ notice' = NoNotice
    /\ UNCHANGED <<alive, brew, listItems, listChecked, importDlg,
                   searchDlg, workers, installer, exportFile>>

\* the file is no JSON, or no JSON object: critical box, return
import_malformed ==
    /\ MainEnabled
    /\ op' = "import_and_install_json"
    /\ calls' = << >>
    /\ notice' = Notice("critical", "Import Error", "Failed to read JSON", << >>, << >>)
    /\ UNCHANGED <<alive, brew, listItems, listChecked, importDlg,
                   searchDlg, workers, installer, exportFile>>

import_and_install_json(data, fromExport, co, fo) ==
    /\ MainEnabled
    /\ importDlg' = import_open(data, fromExport, co, fo)
    /\ op' = "import_and_install_json"
    /\ calls' = ListCalls(co, fo)
    /\ notice' = NoNotice
    /\ UNCHANGED <<alive, brew, listItems, listChecked,
                   searchDlg, workers, installer, exportFile>>

\* import_and_install_json on the file export_installed_json wrote
import_exported(co, fo) ==
    /\ exportFile.exists
    /\ import_and_install_json(exportFile, TRUE, co, fo)

\* the user ticks or unticks an enabled row of the import dialog
import_toggle(i) ==
    /\ alive
    /\ importDlg.open
    /\ i \in 1..Len(importDlg.rows)
    /\ importDlg.rows[i].enabled
    /\ importDlg' = [importDlg EXCEPT !.rows[i].checked = ~@]
    /\ op' = "import_toggle"
    /\ calls' = << >>
    /\ notice' = NoNotice
    /\ UNCHANGED <<alive, brew, listItems, listChecked,
                   searchDlg, workers, installer, exportFile>>

\* cancel_btn.clicked -> dlg.close
import_cancel ==
    /\ alive
    /\ importDlg.open
    /\ importDlg.buttons
    /\ importDlg' = NoDlg
    /\ op' = "import_cancel"
    /\ calls' = << >>
    /\ notice' = NoNotice
    /\ UNCHANGED <<alive, brew, listItems, listChecked,
                   searchDlg, workers, installer, exportFile>>

\* the exported file once the external state is b
file_after(b) ==
    IF exportFile.exists /\ b # brew
    THEN [exportFile EXCEPT !.stale = TRUE]
    ELSE exportFile

\* --------------------------------------------------------- BrewInstaller
\* BrewInstaller(apps): a thread object.  i is the index of the next target
\* of the loop in run; dlg is the dialog its on_finished closure closes
\* (0: the import dialog, d > 0: search window d).
BrewInstaller(apps, dlg) ==
    [status |-> "running", apps |-> apps, i |-> 1, successes |-> << >>,
     failures |-> << >>, orphan |-> FALSE, dlg |-> dlg]

\* a thread that ended without delivering its signal
Ended(status, dlg) == [status |-> status, dlg |-> dlg]

FreeSlots == {w \in 1..MaxWorkers : workers[w].status = "free"}

\* self.installer = BrewInstaller(...); connect; start.  The previous thread
\* object loses its only lasting reference.  If it has not delivered its
\* signal yet it is orphaned: it keeps running next to the new one while
\* its run() is on the stack, or the process aborts at once when the object
\* is destroyed before run() was entered ("Destroyed while thread is still
\* running"); a signal it had already emitted may be dropped with it.
submit_fates ==
    IF installer = 0 THEN {"none"}
    ELSE CASE workers[installer].status = "running" -> {"orphaned", "abort"}
           [] workers[installer].status = "emitted" -> {"orphaned", "dropped"}
           [] OTHER -> {"none"}

submit(apps, dlg, fate) ==
    LET w == SetMin(FreeSlots)
        old == CASE fate = "none" -> workers
                 [] fate = "dropped" ->
                      [workers EXCEPT ![installer] = Ended("lost", @.dlg)]
                 [] OTHER -> [workers EXCEPT ![installer].orphan = TRUE]
    IN  /\ workers' = [old EXCEPT ![w] = BrewInstaller(apps, dlg)]
        /\ installer' = w

\* the targets do_install collects from the import dialog
RECURSIVE import_selected(_)
import_selected(rows) ==
    IF rows = << >> THEN << >>
    ELSE (IF Head(rows).enabled /\ Head(rows).checked
          THEN <<StripMarker(Head(rows).text)>> ELSE << >>)
         \o import_selected(Tail(rows))

\* the notice without the return: the handler goes on to refresh the list
no_selection_fallthrough(handler, title) ==
    /\ notice' = Notice("information", title, "No apps selected.", << >>, << >>)
    /\ op' = handler
    /\ calls' = ListCalls("ok", "ok")
    /\ listItems' = all_apps(brew, "ok", "ok")
    /\ listChecked' = {}
    /\ UNCHANGED <<alive, brew, importDlg, searchDlg, workers, installer, exportFile>>

\* "if not selected: QMessageBox.information(...); return" of the three
\* batch handlers: the notice, and nothing else
no_selection(handler, title) ==
    /\ notice' = Notice("information", title, "No apps selected.", << >>, << >>)
    /\ op' = handler
    /\ calls' = << >>
    /\ UNCHANGED <<alive, brew, listItems, listChecked, importDlg, searchDlg,
                   workers, installer, exportFile>>

\* do_install of the import dialog (install_btn.clicked)
import_do_install(fate) ==
    /\ alive
    /\ importDlg.open
    /\ importDlg.buttons
    /\ fate \in submit_fates
    /\ LET selected == import_selected(importDlg.rows)
       IN  CASE selected = << >> ->
                /\ fate = CHOOSE f \in submit_fates : TRUE
                /\ no_selection("import_do_install", "Install")
            [] selected # << >> /\ fate = "abort" ->
                /\ FreeSlots # {}
                /\ Dead("import_do_install")
            [] OTHER ->
                /\ FreeSlots # {}
                /\ importDlg' = [importDlg EXCEPT !.buttons = FALSE,
                                                  !.title = "Installing..."]
                /\ submit(selected, 0, fate)
                /\ notice' = NoNotice
                /\ op' = "import_do_install"
                /\ calls' = << >>
                /\ UNCHANGED <<alive, brew, listItems, listChecked, searchDlg,
                               exportFile>>

\* ---------------------------------------------------------------- search
\* search_apps: the dialog is cancelled or the query is empty
search_cancelled ==
    /\ MainEnabled
    /\ op' = "search_apps"
    /\ calls' = << >>
    /\ notice' = NoNotice
    /\ UNCHANGED <<alive, brew, listItems, listChecked, importDlg,
                   searchDlg, workers, installer, exportFile>>

\* search_apps: brew search failed or printed nothing
search_nothing(so) ==
    /\ MainEnabled
    /\ op' = "search_apps"
    /\ calls' = <<Call("search", 0, so)>>
    /\ notice' = Notice("information", "Search Results", "No apps found.", << >>, << >>)
    /\ UNCHANGED <<alive, brew, listItems, listChecked, importDlg,
                   searchDlg, workers, installer, exportFile>>

\* search_apps: the lines the tool printed become rows, none checked
search_apps(d, results) ==
    /\ MainEnabled
    /\ ~searchDlg[d].open
    /\ results # << >>
    /\ searchDlg' = [searchDlg EXCEPT ![d] =
                        [open |-> TRUE, results |-> results, checked |-> {},
                         buttons |-> TRUE, title |-> "Search Results"]]
    /\ op' = "search_apps"
    /\ calls' = <<Call("search", 0, "ok")>>
    /\ notice' = NoNotice
    /\ UNCHANGED <<alive, brew, listItems, listChecked, importDlg,
                   workers, installer, exportFile>>

\* the user ticks or unticks row i of search window d
search_toggle(d, i) ==
    /\ MainEnabled
    /\ searchDlg[d].open
    /\ i \in 1..Len(searchDlg[d].results)
    /\ searchDlg' = [searchDlg EXCEPT ![d].checked =
                        IF i \in @ THEN @ \ {i} ELSE @ \cup {i}]
    /\ op' = "search_toggle"
    /\ calls' = << >>
    /\ notice' = NoNotice
    /\ UNCHANGED <<alive, brew, listItems, listChecked, importDlg,
                   workers, installer, exportFile>>

\* back_btn.clicked -> dlg.close
search_back(d) ==
    /\ MainEnabled
    /\ searchDlg[d].open
    /\ searchDlg[d].buttons
    /\ searchDlg' = [searchDlg EXCEPT ![d] = NoDlg]
    /\ op' = "search_back"
    /\ calls' = << >>
    /\ notice' = NoNotice
    /\ UNCHANGED <<alive, brew, listItems, listChecked, importDlg,
                   workers, installer, exportFile>>

\* the texts of the checked rows, in row order
RECURSIVE checked_texts(_, _, _)
checked_texts(texts, checked, i) ==
    IF i > Len(texts) THEN << >>
    ELSE (IF i \in checked THEN <<texts[i]>> ELSE << >>)
         \o checked_texts(texts, checked, i + 1)

\* do_install of search window d (install_btn.clicked)
search_do_install(d, fate) ==
    /\ MainEnabled
    /\ searchDlg[d].open
    /\ searchDlg[d].buttons
    /\ fate \in submit_fates
    /\ LET to_install == checked_texts(searchDlg[d].results, searchDlg[d].checked, 1)
       IN  CASE to_install = << >> ->
                /\ fate = CHOOSE f \in submit_fates : TRUE
                /\ no_selection("search_do_install", "Install")
            [] to_install # << >> /\ fate = "abort" ->
                /\ FreeSlots # {}
                /\ Dead("search_do_install")
            [] OTHER ->
                /\ FreeSlots # {}
                /\ searchDlg' = [searchDlg EXCEPT ![d].buttons = FALSE,
                                                  ![d].title = "Installing..."]
                /\ submit(to_install, d, fate)
                /\ notice' = NoNotice
                /\ op' = "search_do_install"
                /\ calls' = << >>
                /\ UNCHANGED <<alive, brew, listItems, listChecked, importDlg,
                               exportFile>>

\* -------------------------------------------------------- BrewInstaller.run
\* one pass of the loop in run: subprocess.check_call(['brew', 'install', app]).
\* Exit 0 appends to successes, CalledProcessError appends to failures.  When
\* 'brew' cannot be launched FileNotFoundError leaves run: nothing is emitted,
\* and except_hook runs on the worker thread, where its message box and
\* sys.exit(1) either end the process or only the thread.
run_step(w, out, hook) ==
    /\ alive
    /\ workers[w].status = "running"
    /\ workers[w].i <= Len(workers[w].apps)
    /\ LET app == workers[w].apps[workers[w].i]
       IN  /\ out \in InstallOutcomes(app)
           /\ CASE out = "ok" ->
                    /\ hook = "none"
                    /\ workers' = [workers EXCEPT ![w].successes = Append(@, app),
                                                  ![w].i = @ + 1]
                    /\ brew' = brew \cup {app}
                    /\ exportFile' = file_after(brew \cup {app})
                    /\ calls' = <<Call("install", app, out)>>
                    /\ op' = "run"
                    /\ notice' = NoNotice
                    /\ UNCHANGED <<alive, listItems, listChecked, importDlg,
                                   searchDlg, installer>>
                [] out = "exit" ->
                    /\ hook = "none"
                    /\ workers' = [workers EXCEPT ![w].failures = Append(@, app),
                                                  ![w].i = @ + 1]
                    /\ calls' = <<Call("install", app, out)>>
                    /\ op' = "run"
                    /\ notice' = NoNotice
                    /\ UNCHANGED <<alive, brew, exportFile, listItems, listChecked,
                                   importDlg, searchDlg, installer>>
                [] out = "nolaunch" /\ hook = "thread" ->
                    /\ workers' = [workers EXCEPT ![w] = Ended("faulted", @.dlg)]
                    /\ calls' = <<Call("install", app, out)>>
                    /\ op' = "run"
                    /\ notice' = NoNotice
                    /\ UNCHANGED <<alive, brew, exportFile, listItems, listChecked,
                                   importDlg, searchDlg, installer>>
                [] out = "nolaunch" /\ hook = "process" ->
                    Dead("except_hook")
                [] OTHER -> FALSE

\* self.finished.emit(successes, failures) after the loop.  The signal of an
\* orphaned thread is queued, dropped with the thread object, or the
\* destruction of the still running thread aborts the process.
run_emit(w, fate) ==
    /\ alive
    /\ workers[w].status = "running"
    /\ workers[w].i > Len(workers[w].apps)
    /\ fate \in (IF workers[w].orphan THEN {"queued", "lost", "abort"} ELSE {"queued"})
    /\ IF fate = "abort"
       THEN Dead("run")
       ELSE /\ workers' = [workers EXCEPT ![w] =
                              IF fate = "queued" THEN [@ EXCEPT !.status = "emitted"]
                              ELSE Ended("lost", @.dlg)]
            /\ op' = "run"
            /\ calls' = << >>
            /\ notice' = NoNotice
            /\ UNCHANGED <<alive, brew, listItems, listChecked, importDlg, searchDlg,
                           installer, exportFile>>

\* on_finished(successes, failures) on the GUI thread: the summary box,
\* dlg.close(), refresh_app_list()
on_finished(w, co, fo) ==
    /\ alive
    /\ workers[w].status = "emitted"
    /\ notice' = Notice("information", "Install",
                        IF workers[w].successes = << >> /\ workers[w].failures = << >>
                        THEN "Done." ELSE "summary",
                        workers[w].successes, workers[w].failures)
    /\ IF workers[w].dlg = 0
       THEN importDlg' = NoDlg /\ UNCHANGED searchDlg
       ELSE searchDlg' = [searchDlg EXCEPT ![workers[w].dlg] = NoDlg]
            /\ UNCHANGED importDlg
    /\ refresh_app_list(brew, co, fo)
    /\ workers' = [workers EXCEPT ![w] = Free]
    /\ installer' = IF installer = w THEN 0 ELSE installer
    /\ op' = "on_finished"
    /\ calls' = ListCalls(co, fo)
    /\ UNCHANGED <<alive, brew, exportFile>>

\* ------------------------------------------------------------- uninstall
\* uninstall_brew_app: (True, "") on exit 0, (False, stderr) otherwise,
\* (False, str(e)) when the call raises
uninstall_brew_app(out) == <<out = "ok", IF out = "ok" THEN "" ELSE "detail">>

\* Python truth value of a tuple: true unless it is empty
Truthy(t) == Len(t) > 0

\* the loop of uninstall_selected: errors collects app when not success
RECURSIVE uninstall_errors(_, _, _)
uninstall_errors(apps, outs, i) ==
    IF i > Len(apps) THEN << >>
    ELSE LET success == uninstall_brew_app(outs[i])
         IN  (IF ~Truthy(success) THEN <<apps[i]>> ELSE << >>)
             \o uninstall_errors(apps, outs, i + 1)

\* the texts of the checked rows of the main list, in row order
RECURSIVE main_selected(_)
main_selected(items) ==
    IF items = << >> THEN << >>
    ELSE (IF Head(items) \in listChecked THEN <<Head(items)>> ELSE << >>)
         \o main_selected(Tail(items))

uninstall_selected(outs, co, fo) ==
    /\ MainEnabled
    /\ LET to_uninstall == main_selected(listItems)
           n == Len(to_uninstall)
       IN  IF to_uninstall = << >>
           THEN /\ outs = << >> /\ co = "ok" /\ fo = "ok"
                /\ no_selection("uninstall_selected", "Uninstall")
           ELSE /\ outs \in [1..n -> UninstallOutcomes]
                /\ LET errors == uninstall_errors(to_uninstall, outs, 1)
                       gone == {to_uninstall[i] : i \in {j \in 1..n : outs[j] = "ok"}}
                   IN  /\ notice' = IF errors # << >>
                                    THEN Notice("warning", "Uninstall",
                                                "Failed to uninstall", errors, << >>)
                                    ELSE Notice("information", "Uninstall",
                                                "Selected apps uninstalled.", << >>, << >>)
                       /\ brew' = brew \ gone
                       /\ exportFile' = file_after(brew \ gone)
                       /\ calls' = [i \in 1..n |->
                                       Call("uninstall", to_uninstall[i], outs[i])]
                                   \o ListCalls(co, fo)
                       /\ refresh_app_list(brew \ gone, co, fo)
                /\ op' = "uninstall_selected"
                /\ UNCHANGED <<alive, importDlg, searchDlg, workers, installer>>

Fates == {"none", "orphaned", "abort", "dropped"}

\* ------------------------------------------------------------ the program
MainActions ==
    \/ \E n \in Names : ToggleMain(n)
    \/ \E outs \in SeqsUpTo(UninstallOutcomes, NumPkgs),
          co \in QueryOutcomes, fo \in QueryOutcomes : uninstall_selected(outs, co, fo)

FileActions ==
    \/ \E co \in QueryOutcomes, fo \in QueryOutcomes, pathChosen \in BOOLEAN :
          export_installed_json(co, fo, pathChosen)
    \/ \E co \in QueryOutcomes, fo \in QueryOutcomes : import_exported(co, fo)

ImportActions ==
    \/ import_cancelled
    \/ import_malformed
    \/ \E data \in JsonFiles, co \in QueryOutcomes, fo \in QueryOutcomes :
          import_and_install_json(data, FALSE, co, fo)
    \/ \E i \in 1..(2 * NumPkgs) : import_toggle(i)
    \/ import_cancel
    \/ \E fate \in Fates : import_do_install(fate)

SearchActions ==
    \/ search_cancelled
    \/ \E so \in QueryOutcomes : search_nothing(so)
    \/ \E d \in 1..MaxSearchDialogs, results \in SeqsUpTo(Tokens, MaxResults) :
          search_apps(d, results)
    \/ \E d \in 1..MaxSearchDialogs, i \in 1..MaxResults : search_toggle(d, i)
    \/ \E d \in 1..MaxSearchDialogs : search_back(d)
    \/ \E d \in 1..MaxSearchDialogs, fate \in Fates : search_do_install(d, fate)

ThreadActions ==
    \/ \E w \in 1..MaxWorkers, out \in UninstallOutcomes,
          hook \in {"none", "process", "thread"} : run_step(w, out, hook)
    \/ \E w \in 1..MaxWorkers, fate \in {"queued", "lost", "abort"} : run_emit(w, fate)
    \/ \E w \in 1..MaxWorkers, co \in QueryOutcomes, fo \in QueryOutcomes :
          on_finished(w, co, fo)

\* the install / uninstall workflow: every handler but the JSON export
Next == MainActions \/ ImportActions \/ SearchActions \/ ThreadActions

Spec == Init /\ [][Next]_vars

\* the export / import workflow: the main list and the import dialog
NextFiles == MainActions \/ FileActions \/ ImportActions

SpecFiles == Init /\ [][NextFiles]_vars

\* the dialogs alone: threads are created but do not get to run
NextDialogs == MainActions \/ ImportActions \/ SearchActions

SpecDialogs == Init /\ [][NextDialogs]_vars

\* batches from the import dialog and the main list, with their threads
NextThreads == MainActions \/ ImportActions \/ ThreadActions

SpecThreads == Init /\ [][NextThreads]_vars

\* ------------------------------------------------------------ properties
Live == {w \in 1..MaxWorkers : workers[w].status \in {"running", "emitted"}}

\* seq restricted to the positions in keep, in order
RECURSIVE Pick(_, _, _)
Pick(seq, keep, i) ==
    IF i > Len(seq) THEN << >>
    ELSE (IF i \in keep THEN <<seq[i]>> ELSE << >>) \o Pick(seq, keep, i + 1)

\* C1: the result a BrewInstaller emits partitions its batch: succeeded and
\* failed together are the batch, and no package is in both.
C1_ResultPartitionsBatch ==
    \A w \in 1..MaxWorkers :
        workers[w].status = "emitted" =>
            /\ Range(workers[w].successes) \cup Range(workers[w].failures)
                  = Range(workers[w].apps)
            /\ Range(workers[w].successes) \cap Range(workers[w].failures) = {}

\* C2: a batch handed to the executor by either do_install holds no package
\* that is installed at that moment.
C2_NoInstalledPackageInBatch ==
    (/\ alive
     /\ op \in {"import_do_install", "search_do_install"}
     /\ notice = NoNotice
     /\ installer # 0)
    => Range(workers[installer].apps) \cap brew = {}

\* C3: at most one BrewInstaller thread runs at any time.
C3_AtMostOneExecutorRunning ==
    Cardinality({w \in 1..MaxWorkers : workers[w].status = "running"}) <= 1

\* C4: after an uninstall batch, the targets whose call did not exit with
\* zero are listed in a failure warning, and the all-succeeded notice is
\* shown only when every call exited with zero.
C4_UninstallFailuresReported ==
    (op = "uninstall_selected" /\ calls # << >>) =>
        LET failed == {calls[i].arg : i \in {j \in 1..Len(calls) :
                           calls[j].cmd = "uninstall" /\ calls[j].out # "ok"}}
        IN  /\ (notice.body = "Selected apps uninstalled.") <=> (failed = {})
            /\ failed # {} => (notice.icon = "warning" /\ failed \subseteq Range(notice.a))

\* C5: no BrewInstaller thread ends without its completion notification:
\* a thread is running, or its signal is queued for the GUI thread, or the
\* signal was delivered (the slot is free again).
C5_EveryBatchNotifies ==
    /\ op # "except_hook"
    /\ \A w \in 1..MaxWorkers : workers[w].status \in {"free", "running", "emitted"}

\* C6 as stated: a dialog opened from the exported file, the machine
\* unchanged since the export, has no selectable and no checked row, and
\* Install Selected collects nothing from it.
C6_RoundTripNothingSelectable ==
    (importDlg.open /\ importDlg.roundTrip) =>
        /\ \A i \in 1..Len(importDlg.rows) :
              ~importDlg.rows[i].enabled /\ ~importDlg.rows[i].checked
        /\ import_selected(importDlg.rows) = << >>

\* C6 amended: the same, when both list queries of the import succeeded.
C6_RoundTripNothingSelectableIfListed ==
    (importDlg.open /\ importDlg.roundTrip /\ importDlg.listOK) =>
        /\ \A i \in 1..Len(importDlg.rows) :
              /\ ~importDlg.rows[i].enabled
              /\ ~importDlg.rows[i].checked
              /\ importDlg.rows[i].text.marker
        /\ import_selected(importDlg.rows) = << >>

C6_Witness ==
    /\ importDlg.open
    /\ importDlg.roundTrip
    /\ importDlg.listOK
    /\ importDlg.rows # << >>

\* the installed set the two list calls of the last handler returned
QueriedInstalled ==
    (IF calls[1].out = "ok" THEN brew \cap CaskTokens ELSE {})
    \cup (IF calls[2].out = "ok" THEN brew \cap FormulaTokens ELSE {})

\* C7: the import dialog, as opened, has exactly one row per desired name,
\* in ascending order, and each row is marked and locked iff its name is in
\* the installed set the query returned, and pre-checked iff it is not.
C7_ReconcileRows ==
    (op = "import_and_install_json" /\ importDlg.open) =>
        LET rows == importDlg.rows
        IN  /\ {rows[i].app : i \in 1..Len(rows)} = importDlg.desired
            /\ \A i, j \in 1..Len(rows) : i < j => rows[i].app < rows[j].app
            /\ \A i \in 1..Len(rows) :
                  /\ rows[i].text.name = rows[i].app
                  /\ rows[i].text.marker = (rows[i].app \in QueriedInstalled)
                  /\ rows[i].enabled = (rows[i].app \notin QueriedInstalled)
                  /\ rows[i].checked = rows[i].enabled

C7_Witness ==
    /\ op = "import_and_install_json"
    /\ importDlg.open
    /\ \E i, j \in 1..Len(importDlg.rows) :
          importDlg.rows[i].enabled /\ ~importDlg.rows[j].enabled

\* C8: a batch handler run with nothing selected shows the information
\* notice and changes nothing else: no external call, no thread created or
\* replaced, the dialogs, their buttons and the lists as they were.
C8_ZeroSelection ==
    \/ /\ importDlg.open /\ importDlg.buttons
       /\ import_selected(importDlg.rows) = << >>
       /\ op' = "import_do_install"
    \/ /\ MainEnabled
       /\ \E d \in 1..MaxSearchDialogs : searchDlg[d].open /\ searchDlg[d].buttons
       /\ \A d \in 1..MaxSearchDialogs :
             (searchDlg[d].open /\ searchDlg[d].buttons) =>
                 checked_texts(searchDlg[d].results, searchDlg[d].checked, 1) = << >>
       /\ op' = "search_do_install"
    \/ /\ MainEnabled
       /\ listChecked \cap Range(listItems) = {}
       /\ op' = "uninstall_selected"

C8_NoSelectionIsNoOp ==
    [][(alive /\ C8_ZeroSelection) =>
          /\ notice'.icon = "information"
          /\ notice'.body = "No apps selected."
          /\ calls' = << >>
          /\ UNCHANGED <<alive, brew, listItems, listChecked, importDlg, searchDlg,
                         workers, installer, exportFile>>]_vars

C8_Witness ==
    /\ op = "import_do_install"
    /\ notice.body = "No apps selected."
    /\ importDlg.open
    /\ \E i \in 1..Len(importDlg.rows) : importDlg.rows[i].enabled
    /\ \E w \in 1..MaxWorkers : workers[w].status = "running"

\* C9: a BrewInstaller attempts every target once, in order, whatever fails:
\* no thread stops before its last target, and successes and failures are
\* the attempted targets, each in the order of the batch.
C9_EveryTargetAttemptedInOrder ==
    \A w \in 1..MaxWorkers :
        /\ workers[w].status # "faulted"
        /\ workers[w].status \in {"running", "emitted"} =>
              LET r == workers[w]
                  done == r.i - 1
              IN  /\ (r.status = "emitted" => done = Len(r.apps))
                  /\ Len(r.successes) + Len(r.failures) = done
                  /\ \E keep \in SUBSET (1..done) :
                        /\ r.successes = Pick(r.apps, keep, 1)
                        /\ r.failures = Pick(r.apps, (1..done) \ keep, 1)

\* a batch just completed on the GUI thread
BatchCompleted ==
    \/ op = "on_finished"
    \/ op = "uninstall_selected" /\ calls # << >>

\* C10 as stated: once a batch has completed and no other is under way, the
\* list shows the packages installed on the machine.
C10_ListShowsInstalledAfterBatches ==
    (alive /\ BatchCompleted /\ Live = {}) => Range(listItems) = brew

\* C10 amended: the list changes only when a batch completes; the handler
\* then ends with the two list queries, the list is what they returned for
\* the machine as it is then, with no row checked; it equals the installed
\* set when both queries succeeded.
C10_ListRebuiltByQueryOnly ==
    [][alive' =>
          /\ listItems' # listItems => BatchCompleted'
          /\ BatchCompleted' =>
                LET n == Len(calls')
                    co == calls'[n - 1].out
                    fo == calls'[n].out
                IN  /\ n >= 2
                    /\ calls'[n - 1].cmd = "list_cask"
                    /\ calls'[n].cmd = "list"
                    /\ Range(listItems') =
                          (IF co = "ok" THEN brew' \cap CaskTokens ELSE {})
                          \cup (IF fo = "ok" THEN brew' \cap FormulaTokens ELSE {})
                    /\ \A i, j \in 1..Len(listItems') :
                          i < j => listItems'[i] < listItems'[j]
                    /\ listChecked' = {}
                    /\ (co = "ok" /\ fo = "ok") => Range(listItems') = brew']_vars

C10_Witness ==
    /\ op = "on_finished"
    /\ notice.a # << >>
    /\ listItems # << >>
    /\ Range(listItems) = brew
====
